---- MODULE Spec2Model ----
(***************************************************************************)
(* A state-machine model of src/app.py: the /search handler of the         *)
(* shopping wrapper, with its TTL cache (cache_get / cache_set), the       *)
(* process-wide rate limiter (_rate_limit), the PA-API client with retries *)
(* and backoff (search_paapi) and the item normalizer (normalize_item).    *)
(*                                                                         *)
(* Each request-handling thread serves its /search requests in turn; a     *)
(* thread's position in the handler is pc[t], and one action is one step   *)
(* of the handler between two points where another thread can interleave   *)
(* (a lock is entered or left, a sleep begins or ends, the upstream        *)
(* answers).  The routes /health, /cache-stats and /debug-search are not   *)
(* modelled: the first two change nothing, the third calls search_paapi    *)
(* as a cache miss of /search does.                                        *)
(*                                                                         *)
(* Time is an integer clock of seconds (`now`), advanced by Tick: a        *)
(* time.sleep(d) lasts the whole seconds of d, and sleeps of less than a   *)
(* second (the pause between pages) take no time on this clock.            *)
(*                                                                         *)
(* hist, slots and puts are history variables: they record what the        *)
(* handlers did and are read by no action.                                 *)
(***************************************************************************)
EXTENDS Integers, Sequences, FiniteSets, TLC

(***************************************************************************)
(* JSON values as the Python code sees them.  Every value carries its type *)
(* tag `k`, because the code branches on isinstance(cur, dict).            *)
(***************************************************************************)
None == [k |-> "none"]
Num(n) == [k |-> "num", n |-> n]
Str(s) == [k |-> "str", s |-> s]
Bool(b) == [k |-> "bool", b |-> b]
List(l) == [k |-> "list", l |-> l]
Dict(d) == [k |-> "dict", d |-> d]

IsNone(v) == v.k = "none"

\* `v is True`
IsTrue(v) == v.k = "bool" /\ v.b

\* Python truthiness of a JSON value (`if x:` / `x or y`).
Truthy(v) ==
    CASE v.k = "none" -> FALSE
      [] v.k = "num"  -> v.n # 0
      [] v.k = "str"  -> v.s # ""
      [] v.k = "bool" -> v.b
      [] v.k = "list" -> v.l # <<>>
      [] v.k = "dict" -> DOMAIN v.d # {}

\* A path element of g(): a string key or an integer index.
Key(s) == [k |-> "key", s |-> s]
Idx(i) == [k |-> "idx", i |-> i]

\* dict.get(k, None).  The dicts come from JSON, so their keys are strings:
\* an integer index is never a key of one.
DictGet(d, key) ==
    IF key.k = "key" /\ key.s \in DOMAIN d THEN d[key.s] ELSE None

\* g(obj, path, default): walk `path`; anything that is not a dict on the
\* way (a list included), or a missing / null value, yields `default`.
RECURSIVE g(_, _, _)
g(obj, path, default) ==
    IF path = <<>> THEN obj
    ELSE IF obj.k = "dict"
         THEN LET cur == DictGet(obj.d, Head(path))
              IN  IF IsNone(cur) THEN default ELSE g(cur, Tail(path), default)
         ELSE default

\* The first n elements of a sequence: s[:n].
Take(s, n) == SubSeq(s, 1, IF Len(s) < n THEN Len(s) ELSE n)

\* Python's round() of the non-negative ratio num/den: half to even.
RoundDiv(num, den) ==
    LET fl  == num \div den
        rem == num % den
    IN  IF 2 * rem < den THEN fl
        ELSE IF 2 * rem > den THEN fl + 1
        ELSE IF fl % 2 = 0 THEN fl ELSE fl + 1

Max(a, b) == IF a > b THEN a ELSE b
Min(a, b) == IF a < b THEN a ELSE b

\* savings_amt, savings_pct of normalize_item (lines 48-52).
SavingsOf(price_amt, list_price_amt) ==
    IF ~IsNone(price_amt) /\ Truthy(list_price_amt)
    THEN LET savings_amt == Max(0, list_price_amt.n - price_amt.n)
         IN  [amt |-> Num(savings_amt),
              pct |-> IF list_price_amt.n > 0
                      THEN Num(RoundDiv(100 * savings_amt, list_price_amt.n))
                      ELSE None]
    ELSE [amt |-> None, pct |-> None]

\* The fields normalize_item reads before it builds the product.
ProductOf(item) ==
    LET asin    == DictGet(item.d, Key("ASIN"))
        listing == g(item, <<Key("Offers"), Key("Listings"), Idx(0)>>, Dict(<<>>))
        price_amt      == g(listing, <<Key("Price"), Key("Amount")>>, None)
        list_price_amt == g(listing, <<Key("SavingBasis"), Key("Amount")>>, None)
        sav     == SavingsOf(price_amt, list_price_amt)
        feats   == g(item, <<Key("ItemInfo"), Key("Features"), Key("DisplayValues")>>,
                     List(<<>>))
        features == IF Truthy(feats) THEN feats ELSE List(<<>>)
    IN  [id              |-> asin,
         asin            |-> asin,
         name            |-> g(item, <<Key("ItemInfo"), Key("Title"), Key("DisplayValue")>>, None),
         price           |-> price_amt,
         list_price      |-> list_price_amt,
         savings_amount  |-> sav.amt,
         savings_percent |-> sav.pct,
         rating          |-> g(item, <<Key("CustomerReviews"), Key("StarRating"),
                                       Key("DisplayValue")>>, None),
         review_count    |-> g(item, <<Key("CustomerReviews"), Key("Count")>>, None),
         is_prime        |-> g(listing, <<Key("DeliveryInfo"), Key("IsPrimeEligible")>>, None),
         features        |-> IF features.k = "list" THEN Take(features.l, 6) ELSE <<>>]

\* normalize_item: the product, or None when the body raises.  The body
\* raises on item.get when the item is not a dict, and on features[:6] when
\* Features.DisplayValues is a truthy dict, number or bool (no slicing).
normalize_item(item) ==
    IF item.k # "dict" THEN None
    ELSE LET feats == g(item, <<Key("ItemInfo"), Key("Features"), Key("DisplayValues")>>,
                        List(<<>>))
         IN  IF Truthy(feats) /\ feats.k \in {"dict", "num", "bool"}
             THEN None
             ELSE Dict(ProductOf(item))

\* The items up to the first one that normalize_item gives up on.
RECURSIVE NormalizeUntilBad(_)
NormalizeUntilBad(raw_items) ==
    IF raw_items = <<>> THEN <<>>
    ELSE LET p == normalize_item(Head(raw_items))
         IN  IF Truthy(p) THEN <<p>> \o NormalizeUntilBad(Tail(raw_items)) ELSE <<>>

\* [normalize_item(it) for it in raw_items if normalize_item(it)]
RECURSIVE NormalizeAll(_)
NormalizeAll(raw_items) ==
    IF raw_items = <<>> THEN <<>>
    ELSE LET p == normalize_item(Head(raw_items))
         IN  (IF Truthy(p) THEN <<p>> ELSE <<>>) \o NormalizeAll(Tail(raw_items))


(***************************************************************************)
(* Request parameters of /search (lines 237-255).  A query-string argument *)
(* is None (absent) or Str(text); the query text is a sequence of          *)
(* characters so that strip() is computed.                                 *)
(***************************************************************************)
IsSpace(c) == c = " "

RECURSIVE LStrip(_)
LStrip(s) == IF s # <<>> /\ IsSpace(Head(s)) THEN LStrip(Tail(s)) ELSE s

RECURSIVE RStrip(_)
RStrip(s) ==
    IF s # <<>> /\ IsSpace(s[Len(s)]) THEN RStrip(SubSeq(s, 1, Len(s) - 1)) ELSE s

\* (request.args.get("q") or "").strip(); an absent q is the empty sequence.
Strip(s) == RStrip(LStrip(s))

\* The decimal literals the requests of the model use, with int()'s value.
IntLiteral == [s \in {"0", "1", "2", "3", "5", "9", "100", "150"} |->
                 CASE s = "0" -> 0 [] s = "1" -> 1 [] s = "2" -> 2 [] s = "3" -> 3
                   [] s = "5" -> 5 [] s = "9" -> 9 [] s = "100" -> 100 [] s = "150" -> 150]

\* _int(name, default): int(v) if v else default; default when int() raises.
ParseInt(v, default) ==
    IF ~Truthy(v) THEN default
    ELSE IF v.s \in DOMAIN IntLiteral THEN IntLiteral[v.s] ELSE default

\* _float(name): float(v) if v else None; None when float() raises.
ParseFloat(v) ==
    IF ~Truthy(v) THEN None
    ELSE IF v.s \in DOMAIN IntLiteral THEN Num(IntLiteral[v.s]) ELSE None

\* _bool(name): the argument, lowered and stripped, is one of the four words.
ParseBool(v) == Truthy(v) /\ v.s \in {"1", "true", "yes", "y"}

\* pages = max(1, min(_int("pages", 1), 5))
ClampPages(n) == Max(1, Min(n, 5))

(***************************************************************************)
(* Filtering, scoring and sorting of search (lines 289-311).               *)
(***************************************************************************)
\* The two `continue` tests of the filter loop: TRUE when p is kept.
Passes(p, max_price, prime_only) ==
    /\ ~(~IsNone(max_price) /\ ~IsNone(p.d.price) /\ p.d.price.n > max_price.n)
    /\ ~(prime_only /\ ~IsTrue(p.d.is_prime))

RECURSIVE Filtered(_, _, _)
Filtered(ps, max_price, prime_only) ==
    IF ps = <<>> THEN <<>>
    ELSE (IF Passes(Head(ps), max_price, prime_only) THEN <<Head(ps)>> ELSE <<>>)
         \o Filtered(Tail(ps), max_price, prime_only)

\* 1000 * log10(n + 1) for the review counts the model uses.
Log10Milli(n) ==
    CASE n = 0 -> 0 [] n = 9 -> 1000 [] n = 99 -> 2000 [] n = 999 -> 3000

\* 1000 * score(p): rating and review_count default to 0, price_fit is
\* 1 - clamp01(price / max_price) when both are truthy, prime_bonus is 0.2.
Score(p, max_price) ==
    LET r == IF Truthy(p.d.rating) THEN p.d.rating.n ELSE 0
        c == IF Truthy(p.d.review_count) THEN p.d.review_count.n ELSE 0
        price_fit == IF Truthy(max_price) /\ Truthy(p.d.price)
                     THEN 1000 - Min(1000, Max(0, (1000 * p.d.price.n) \div max_price.n))
                     ELSE 0
        prime_bonus == IF Truthy(p.d.is_prime) THEN 200 ELSE 0
    IN  2000 * r + Log10Milli(c) + price_fit + prime_bonus

\* sorted(results, key=score)[::-1] instead: descending, ties reversed.
RECURSIVE InsertDescTiesReversed(_, _, _)
InsertDescTiesReversed(p, sorted, max_price) ==
    IF sorted = <<>> THEN <<p>>
    ELSE IF Score(Head(sorted), max_price) > Score(p, max_price)
         THEN <<Head(sorted)>> \o InsertDescTiesReversed(p, Tail(sorted), max_price)
         ELSE <<p>> \o sorted

\* Insert p behind every element whose score is at least p's (stable).
RECURSIVE InsertDesc(_, _, _)
InsertDesc(p, sorted, max_price) ==
    IF sorted = <<>> THEN <<p>>
    ELSE IF Score(Head(sorted), max_price) >= Score(p, max_price)
         THEN <<Head(sorted)>> \o InsertDesc(p, Tail(sorted), max_price)
         ELSE <<p>> \o sorted

\* sorted(results, key=score, reverse=True): stable, descending.
RECURSIVE SortedDesc(_, _)
SortedDesc(results, max_price) ==
    IF results = <<>> THEN <<>>
    ELSE InsertDesc(results[Len(results)],
                    SortedDesc(SubSeq(results, 1, Len(results) - 1), max_price),
                    max_price)

StatusOfAnyError(results_sorted, errs) == IF errs # <<>> THEN 502 ELSE 200

\* status = 200 if results_sorted else (502 if errors else 200)
StatusOf(results_sorted, errors) ==
    IF results_sorted # <<>> THEN 200 ELSE IF errors # <<>> THEN 502 ELSE 200


(***************************************************************************)
(* The upstream (PA-API) as a stub: raw items and HTTP responses.          *)
(***************************************************************************)
\* A complete raw item: Offers.Listings is a JSON array, as PA-API sends it.
RawItem(asin, price, prime, stars, count) ==
    Dict([ASIN |-> Str(asin),
          ItemInfo |-> Dict([Title |-> Dict([DisplayValue |-> Str("title")]),
                             Features |-> Dict([DisplayValues |->
                                 List(<<Str("f1"), Str("f2")>>)])]),
          Offers |-> Dict([Listings |-> List(<<
              Dict([Price |-> Dict([Amount |-> Num(price)]),
                    SavingBasis |-> Dict([Amount |-> Num(price + 30)]),
                    DeliveryInfo |-> Dict([IsPrimeEligible |-> Bool(prime)])])>>)]),
          CustomerReviews |-> Dict([StarRating |-> Dict([DisplayValue |-> Num(stars)]),
                                    Count |-> Num(count)])])

ItemA == RawItem("B0A", 120, TRUE, 4, 9)
ItemB == RawItem("B0B", 80, FALSE, 5, 0)
\* Another product with the score of ItemB: 4 * 2 + log10(99 + 1) = 5 * 2 + log10(0 + 1).
ItemC == RawItem("B0C", 60, TRUE, 4, 99)
\* A raw item without an ASIN.
ItemNoAsin ==
    Dict([ItemInfo |-> Dict([Title |-> Dict([DisplayValue |-> Str("title")])]),
          CustomerReviews |-> Dict([Count |-> Num(99)])])
\* A raw item that is not a JSON object.
ItemMalformed == Str("oops")
\* A raw item whose Features.DisplayValues is a number: features[:6] raises.
ItemBadFeatures ==
    Dict([ASIN |-> Str("B0D"),
          ItemInfo |-> Dict([Features |-> Dict([DisplayValues |-> Num(5)])])])

\* An HTTP response: status, whether the body parses as JSON (r.json()),
\* the parsed document, and the raw text (r.text).
Response(status, json, data, text) ==
    [status |-> status, json |-> json, data |-> data, text |-> Str(text)]

RespItems(items) ==
    Response(200, TRUE, Dict([SearchResult |-> Dict([Items |-> List(items)])]), "")
RespEmpty == Response(200, TRUE, Dict([SearchResult |-> Dict(<<>>)]), "")
RespErrors ==
    Response(200, TRUE,
             Dict([Errors |-> List(<<Dict([Code |-> Str("InvalidParameterValue")])>>)]), "")
RespNotJson == Response(200, FALSE, None, "<html>")
Resp503 == Response(503, FALSE, None, "Service Unavailable")
Resp429 == Response(429, TRUE, Dict([message |-> Str("Too Many Requests")]), "")
Resp404 == Response(404, TRUE, Dict([message |-> Str("Not Found")]), "")

MoreRetries == 5 + 1

max_retries == 5
\* backoff = 1.2 and backoff *= 1.7, in hundredths of a second.
InitialBackoff == 120
GrowBackoff(b) == (b * 17) \div 10
\* random.uniform(0, 0.3), in hundredths of a second: the two ends.
Jitter == {0, 29}
\* The whole seconds a sleep of b + j hundredths is sure to span.
SleepSeconds(b, j) == (b + j) \div 100

RetryableAnyError(status) == status >= 400

Retryable(status) == status \in {429, 500, 502, 503, 504}
Success(status) == 200 <= status /\ status < 300

\* bool(response) of the requests library: response.ok, status below 400.
RespTruthy(r) == r.status < 400

\* str(e) of the errors search_paapi raises, as records.
\* r.json() failing on a 2xx body: the decoder's exception.
ErrJson(r) == [kind |-> "JSONDecodeError", status |-> "", body |-> r.text]
\* RuntimeError(f"PA-API Errors: {json.dumps(data['Errors'])}")
ErrLogical(r) == [kind |-> "PA-API Errors", status |-> "", body |-> r.data.d.Errors]
\* err = r.json(), or r.text when that raises
ErrBody(r) == IF r.json THEN r.data ELSE r.text
\* RuntimeError(f"PA-API HTTP {r.status_code}: {err}")
ErrHttp(r) == [kind |-> "PA-API HTTP", status |-> ToString(r.status), body |-> ErrBody(r)]
\* RuntimeError(f"PA-API HTTP {last_resp.status_code if last_resp else '???'}
\*                after retries: {err}")
ErrExhausted(r) ==
    [kind |-> "PA-API HTTP after retries",
     status |-> IF RespTruthy(r) THEN ToString(r.status) ELSE "???",
     body |-> ErrBody(r)]

\* A response that is a failure and not retryable: a 2xx whose body carries
\* a non-empty Errors list, or a status neither 2xx nor one of the five.
Fatal(r) ==
    \/ r.status \in 200..299 /\ r.json /\ r.data.k = "dict"
          /\ "Errors" \in DOMAIN r.data.d /\ r.data.d.Errors.k = "list"
          /\ r.data.d.Errors.l # <<>>
    \/ r.status \notin 200..299 /\ r.status \notin {429, 500, 502, 503, 504}

\* What search_paapi does with one response: "return", "raise" or "retry",
\* with the items returned or the error raised.
Classify(r) ==
    IF Success(r.status)
    THEN IF ~r.json THEN [do |-> "raise", err |-> ErrJson(r)]
         ELSE IF Truthy(DictGet(r.data.d, Key("Errors")))
              THEN [do |-> "raise", err |-> ErrLogical(r)]
              ELSE LET a == g(r.data, <<Key("SearchResult"), Key("Items")>>, None)
                       b == g(r.data, <<Key("ItemsResult"), Key("Items")>>, List(<<>>))
                       items == IF Truthy(a) THEN a ELSE b
                   IN  [do |-> "return",
                        items |-> IF Truthy(items) THEN items.l ELSE <<>>]
    ELSE IF Retryable(r.status) THEN [do |-> "retry"]
    ELSE [do |-> "raise", err |-> ErrHttp(r)]


(***************************************************************************)
(* Configuration and bounds.                                               *)
(***************************************************************************)
\* The two knobs are read from the environment (lines 18-19); the model
\* runs with CACHE_TTL_SECONDS=3 and MIN_CALL_INTERVAL=2.
CACHE_TTL_SECONDS == 3
MIN_CALL_INTERVAL == 2

\* The request-handling threads, and the mark of a free lock.
Threads == {"t1", "t2"}
NoThread == "-"

\* The clock stops at the horizon of the run: MaxTime when the threads run
\* concurrently, MaxTimeSeq when one thread serves one request (long enough
\* for five attempts and their backoff sleeps), MaxTimePages when one
\* thread serves two requests in turn.
MaxTime == 6
MaxTimeSeq == 26
MaxTimePages == 12

VARIABLES
    now,            \* time.time(), in whole seconds
    env_ok,         \* the three AMAZON_* credentials are set
    upstream,       \* the responses the upstream may give
    horizon,        \* the time the clock stops at
    cache,          \* _cache: key -> (exp, data)
    cache_lock,     \* the thread holding _cache_lock
    rate_lock,      \* the thread holding _rate_lock
    last_call_ts,   \* _last_call_ts
    pc,             \* each thread's position in the handler
    req,            \* each thread's requests still to come, as query-string arguments
    q, max_price, pages, prime_only,    \* locals of search()
    page, normalized, results, errors,  \* locals of search()
    iter, backoff, last_resp,           \* locals of search_paapi()
    wait_until,     \* the time a sleeping thread wakes at the earliest
    out,            \* each thread's response: payload and status
    hist,           \* per thread: what its current call has done so far
    slots,          \* the instants _rate_limit recorded: how many, the first,
                    \* and the last two with the threads that recorded them;
                    \* and how many upstream calls were made
    puts            \* per cache key, the last cache_set: its time, ttl and data

shared  == <<cache, cache_lock, rate_lock, last_call_ts>>
config  == <<env_ok, upstream, horizon>>
params  == <<q, max_price, pages, prime_only>>
slocals == <<page, normalized, results, errors>>
flocals == <<iter, backoff, last_resp>>
vars == <<now, config, shared, pc, req, params, slocals, flocals, wait_until, out, hist, slots, puts>>

\* cache_key = ("search", q, page)
CacheKey(qq, pg) == <<"search", qq, pg>>

CacheGetDataEarly(c, key, t) ==
    IF key \notin DOMAIN c THEN None
    ELSE IF t >= c[key].exp THEN None
    ELSE List(c[key].data)

\* cache_get(key) at time t: the data returned (None on a miss) ...
CacheGetData(c, key, t) ==
    IF key \notin DOMAIN c THEN None
    ELSE IF t > c[key].exp THEN None
    ELSE List(c[key].data)

CacheAfterGetKeep(c, key, t) == c

\* ... and the map it leaves: an expired entry is deleted.
CacheAfterGet(c, key, t) ==
    IF key \in DOMAIN c /\ t > c[key].exp
    THEN [k \in DOMAIN c \ {key} |-> c[k]]
    ELSE c

\* cache_set(key, data, ttl) at time t
CacheAfterSet(c, key, data, ttl, t) ==
    [k \in DOMAIN c \cup {key} |->
        IF k = key THEN [exp |-> t + ttl, data |-> data] ELSE c[k]]

RateWaitShort(t, last) == MIN_CALL_INTERVAL - 1 - (t - last)

\* wait = MIN_CALL_INTERVAL - (now - _last_call_ts)
RateWait(t, last) == MIN_CALL_INTERVAL - (t - last)

\* What a thread's current call of search() has done: in its current call of
\* search_paapi the upstream attempts, backoff sleeps and rate-limiter
\* acquires made, the retryable answers received, the attempt that received
\* the first answer that is a failure and not retryable (0: none yet), and
\* how the call ended; the page whose fetch failed (0: none); its last
\* cache_get (which one of the call, when, its
\* result, the last cache_set of the key at that moment, whether the map
\* held the key before and after); the pages looked up in the cache, the
\* pages fetched upstream, and the normalized list of each page processed.
\* `prev` is the query and the page whose fetch failed in the thread's
\* previous call of search, if one did.
\* A cache_set is recorded with its time, ttl and data, the normalized items
\* of the upstream answer it follows, and the filters of the call making it.
NoPut == [set |-> FALSE, at |-> 0, ttl |-> 0, data |-> <<>>, full |-> <<>>,
          filters |-> [max_price |-> None, prime_only |-> FALSE]]
NoGet == [n |-> 0, at |-> 0, hit |-> FALSE, data |-> <<>>, put |-> NoPut,
          present_before |-> FALSE, present_after |-> FALSE]
NoPrev == [q |-> <<>>, page |-> 0]
NoHist == [attempts |-> 0, sleeps |-> 0, acquires |-> 0, retryable |-> 0,
           fatal_at |-> 0, outcome |-> "", failed |-> 0, get |-> NoGet, lookups |-> <<>>,
           fetched |-> <<>>, served |-> <<>>, prev |-> NoPrev]
NoResponse == [status |-> 0, body |-> [payload |-> FALSE]]

\* A request before it is read: the raw arguments of the query string.
Request(rq, rpages, rmax, rprime) ==
    [q |-> rq, pages |-> rpages, max_price |-> rmax, prime_only |-> rprime]

InitCommon ==
    /\ now = MIN_CALL_INTERVAL
    /\ cache = <<>>
    /\ cache_lock = NoThread
    /\ rate_lock = NoThread
    /\ last_call_ts = 0
    /\ pc = [t \in Threads |-> "idle"]
    /\ q = [t \in Threads |-> <<>>]
    /\ max_price = [t \in Threads |-> None]
    /\ pages = [t \in Threads |-> 1]
    /\ prime_only = [t \in Threads |-> FALSE]
    /\ page = [t \in Threads |-> 0]
    /\ normalized = [t \in Threads |-> <<>>]
    /\ results = [t \in Threads |-> <<>>]
    /\ errors = [t \in Threads |-> <<>>]
    /\ iter = [t \in Threads |-> 0]
    /\ backoff = [t \in Threads |-> InitialBackoff]
    /\ last_resp = [t \in Threads |-> None]
    /\ wait_until = [t \in Threads |-> 0]
    /\ out = [t \in Threads |-> NoResponse]
    /\ hist = [t \in Threads |-> NoHist]
    /\ slots = [n |-> 0, first |-> 0, prev |-> 0, last |-> 0,
                prev_by |-> NoThread, last_by |-> NoThread, calls |-> 0]
    /\ puts = <<>>


(***************************************************************************)
(* The /search handler, step by step (lines 232-322).                      *)
(***************************************************************************)
H(t, field, val) == [hist EXCEPT ![t][field] = val]

AfterErrorNoBreak == "pause"
AfterErrorCaches == "cache_set"

\* Where search goes on after `except`: line 287, `break`, leaves the loop.
AfterError == "finish"

\* Lines 234-255: the credential check, q, and the three parameters.
Receive(t) ==
    /\ pc[t] \in {"idle", "done"}
    /\ req[t] # <<>>
    /\ req' = [req EXCEPT ![t] = Tail(@)]
    /\ hist' = [hist EXCEPT ![t] =
                   [NoHist EXCEPT !.prev = IF hist[t].failed > 0
                                           THEN [q |-> q[t], page |-> hist[t].failed]
                                           ELSE NoPrev]]
    /\ LET rq == Head(req[t])
           qq == Strip(rq.q)
       IN  IF ~env_ok
           THEN /\ out' = [out EXCEPT ![t] = [status |-> 500,
                               error |-> "Missing Amazon credentials env vars"]]
                /\ pc' = [pc EXCEPT ![t] = "done"]
                /\ UNCHANGED <<params, slocals>>
           ELSE IF qq = <<>>
           THEN /\ out' = [out EXCEPT ![t] = [status |-> 400,
                               error |-> "Missing required query param 'q'"]]
                /\ pc' = [pc EXCEPT ![t] = "done"]
                /\ UNCHANGED <<params, slocals>>
           ELSE /\ q' = [q EXCEPT ![t] = qq]
                /\ max_price' = [max_price EXCEPT ![t] = ParseFloat(rq.max_price)]
                /\ pages' = [pages EXCEPT ![t] = ClampPages(ParseInt(rq.pages, 1))]
                /\ prime_only' = [prime_only EXCEPT ![t] = ParseBool(rq.prime_only)]
                /\ page' = [page EXCEPT ![t] = 1]
                /\ results' = [results EXCEPT ![t] = <<>>]
                /\ errors' = [errors EXCEPT ![t] = <<>>]
                /\ pc' = [pc EXCEPT ![t] = "cache_get"]
                /\ UNCHANGED <<normalized, out>>
    /\ UNCHANGED <<now, config, shared, flocals, wait_until, slots, puts>>

\* cache_get, line 115: `with _cache_lock` is entered.
CacheGetEnter(t) ==
    /\ pc[t] = "cache_get"
    /\ cache_lock = NoThread
    /\ cache_lock' = t
    /\ pc' = [pc EXCEPT ![t] = "cache_get_locked"]
    /\ UNCHANGED <<now, req, config, cache, rate_lock, last_call_ts, params, slocals,
                   flocals, wait_until, out, hist, slots, puts>>

LockKeptOnMiss(t, data) == IF IsNone(data) THEN t ELSE NoThread

\* The holder of _cache_lock once cache_get has returned `data`: the `with`
\* block of line 115 is left on each of its three returns.
LockAfterGet(t, data) == NoThread

\* cache_get, lines 116-124, and the branch of line 278.  On a miss
\* search_paapi is entered (lines 154-170): the loop variables are set.
CacheGetBody(t) ==
    /\ pc[t] = "cache_get_locked"
    /\ cache_lock = t
    /\ LET key  == CacheKey(q[t], page[t])
           data == CacheGetData(cache, key, now)
           got  == [n |-> hist[t].get.n + 1, at |-> now, hit |-> ~IsNone(data),
                    data |-> IF IsNone(data) THEN <<>> ELSE data.l,
                    put |-> IF key \in DOMAIN puts THEN puts[key] ELSE NoPut,
                    present_before |-> key \in DOMAIN cache,
                    present_after |-> key \in DOMAIN CacheAfterGet(cache, key, now)]
       IN  /\ cache' = CacheAfterGet(cache, key, now)
           /\ cache_lock' = LockAfterGet(t, data)
           /\ IF IsNone(data)
              THEN /\ iter' = [iter EXCEPT ![t] = 0]
                   /\ backoff' = [backoff EXCEPT ![t] = InitialBackoff]
                   /\ last_resp' = [last_resp EXCEPT ![t] = None]
                   /\ hist' = [hist EXCEPT ![t] =
                                  [@ EXCEPT !.attempts = 0, !.sleeps = 0, !.acquires = 0,
                                            !.retryable = 0, !.fatal_at = 0,
                                            !.outcome = "", !.get = got,
                                            !.lookups = Append(@, page[t]),
                                            !.fetched = Append(@, page[t])]]
                   /\ pc' = [pc EXCEPT ![t] = "rate_limit"]
                   /\ UNCHANGED normalized
              ELSE /\ normalized' = [normalized EXCEPT ![t] = data.l]
                   /\ hist' = [hist EXCEPT ![t] =
                                  [@ EXCEPT !.get = got,
                                            !.lookups = Append(@, page[t]),
                                            !.served = Append(@, data.l)]]
                   /\ pc' = [pc EXCEPT ![t] = "filter"]
                   /\ UNCHANGED flocals
    /\ UNCHANGED <<now, req, config, rate_lock, last_call_ts, params, page, results, errors,
                   wait_until, out, slots, puts>>

\* _rate_limit, line 136: `with _rate_lock` is entered.
RateEnter(t) ==
    /\ pc[t] = "rate_limit"
    /\ rate_lock = NoThread
    /\ rate_lock' = t
    /\ pc' = [pc EXCEPT ![t] = "rate_locked"]
    /\ UNCHANGED <<now, req, config, cache, cache_lock, last_call_ts, params, slocals,
                   flocals, wait_until, out, hist, slots, puts>>

\* _rate_limit, lines 137-140: the wait is computed and the sleep begins.
RateRead(t) ==
    /\ pc[t] = "rate_locked"
    /\ LET wait == RateWait(now, last_call_ts)
       IN  IF wait > 0
           THEN /\ wait_until' = [wait_until EXCEPT ![t] = now + wait]
                /\ pc' = [pc EXCEPT ![t] = "rate_sleep"]
           ELSE /\ pc' = [pc EXCEPT ![t] = "rate_record"]
                /\ UNCHANGED wait_until
    /\ UNCHANGED <<now, req, config, shared, params, slocals, flocals, out, hist, slots, puts>>

\* _rate_limit, line 140: time.sleep(wait) returns.
RateWake(t) ==
    /\ pc[t] = "rate_sleep"
    /\ now >= wait_until[t]
    /\ pc' = [pc EXCEPT ![t] = "rate_record"]
    /\ wait_until' = [wait_until EXCEPT ![t] = 0]
    /\ UNCHANGED <<now, req, config, shared, params, slocals, flocals, out, hist, slots, puts>>

\* _rate_limit, line 141: the instant is recorded and the lock released.
RateRecord(t) ==
    /\ pc[t] = "rate_record"
    /\ rate_lock = t
    /\ last_call_ts' = now
    /\ rate_lock' = NoThread
    /\ slots' = [n |-> slots.n + 1,
                 first |-> IF slots.n = 0 THEN now ELSE slots.first,
                 prev |-> slots.last, last |-> now,
                 prev_by |-> slots.last_by, last_by |-> t, calls |-> slots.calls]
    /\ hist' = H(t, "acquires", hist[t].acquires + 1)
    /\ pc' = [pc EXCEPT ![t] = "post"]
    /\ UNCHANGED <<now, req, config, cache, cache_lock, params, slocals, flocals,
                   wait_until, out, puts>>

\* The attempt that received the call's first fatal answer, r included.
FatalAt(h, r) == IF h.fatal_at = 0 /\ Fatal(r) THEN h.attempts + 1 ELSE h.fatal_at

\* requests.post answers with r, and r is a success (lines 180-185); the
\* items are normalized (line 281).
PostReturn(t) ==
    /\ pc[t] = "post"
    /\ \E r \in upstream :
        /\ Classify(r).do = "return"
        /\ last_resp' = [last_resp EXCEPT ![t] = r]
        /\ normalized' = [normalized EXCEPT ![t] = NormalizeAll(Classify(r).items)]
        /\ hist' = [hist EXCEPT ![t] = [@ EXCEPT !.attempts = @ + 1,
                                                 !.fatal_at = FatalAt(hist[t], r),
                                                 !.outcome = "return"]]
    /\ slots' = [slots EXCEPT !.calls = @ + 1]
    /\ pc' = [pc EXCEPT ![t] = "cache_set"]
    /\ UNCHANGED <<now, req, config, shared, params, page, results, errors, iter, backoff,
                   wait_until, out, puts>>

\* requests.post answers with r, and search_paapi raises at once (lines 181,
\* 183, 198); search records the error and leaves the loop (lines 285-287).
PostRaise(t) ==
    /\ pc[t] = "post"
    /\ \E r \in upstream :
        /\ Classify(r).do = "raise"
        /\ last_resp' = [last_resp EXCEPT ![t] = r]
        /\ errors' = [errors EXCEPT ![t] = Append(@, Classify(r).err)]
        /\ hist' = [hist EXCEPT ![t] = [@ EXCEPT !.attempts = @ + 1,
                                                 !.fatal_at = FatalAt(hist[t], r),
                                                 !.outcome = "raise",
                                                 !.failed = page[t]]]
    /\ slots' = [slots EXCEPT !.calls = @ + 1]
    /\ pc' = [pc EXCEPT ![t] = AfterError]
    /\ UNCHANGED <<now, req, config, shared, params, page, normalized, results, iter,
                   backoff, wait_until, out, puts>>

\* requests.post answers with a retryable status: the backoff sleep begins
\* (lines 188-189).
PostRetry(t) ==
    /\ pc[t] = "post"
    /\ \E r \in upstream, j \in Jitter :
        /\ Classify(r).do = "retry"
        /\ last_resp' = [last_resp EXCEPT ![t] = r]
        /\ wait_until' = [wait_until EXCEPT ![t] = now + SleepSeconds(backoff[t], j)]
        /\ hist' = [hist EXCEPT ![t] = [@ EXCEPT !.attempts = @ + 1,
                                                 !.fatal_at = FatalAt(hist[t], r),
                                                 !.retryable = @ + 1,
                                                 !.sleeps = @ + 1]]
    /\ slots' = [slots EXCEPT !.calls = @ + 1]
    /\ pc' = [pc EXCEPT ![t] = "backoff"]
    /\ UNCHANGED <<now, req, config, shared, params, slocals, iter, backoff, out, puts>>

AfterBackoffNoAcquire == "post"

\* Where search_paapi goes on after `continue`: the next round of the loop
\* of line 172 begins with _rate_limit(), line 173.
AfterBackoff == "rate_limit"

\* The backoff sleep returns, backoff grows and the loop goes on (lines
\* 190-191, 172); after the last round search_paapi raises (lines 200-205).
BackoffWake(t) ==
    /\ pc[t] = "backoff"
    /\ now >= wait_until[t]
    /\ backoff' = [backoff EXCEPT ![t] = GrowBackoff(@)]
    /\ iter' = [iter EXCEPT ![t] = @ + 1]
    /\ IF iter[t] + 1 < max_retries
       THEN /\ pc' = [pc EXCEPT ![t] = AfterBackoff]
            /\ UNCHANGED <<errors, hist>>
       ELSE /\ errors' = [errors EXCEPT ![t] = Append(@, ErrExhausted(last_resp[t]))]
            /\ hist' = [hist EXCEPT ![t] = [@ EXCEPT !.outcome = "exhausted",
                                                     !.failed = page[t]]]
            /\ pc' = [pc EXCEPT ![t] = AfterError]
    /\ wait_until' = [wait_until EXCEPT ![t] = 0]
    /\ UNCHANGED <<now, req, config, shared, params, page, normalized, results, last_resp,
                   out, slots, puts>>

CachedListFiltered(norm, maxp, prime) == Filtered(norm, maxp, prime)

\* The list search passes to cache_set, line 282: `normalized`, as it is
\* before the filters of lines 290-295 are applied.
CachedList(norm, maxp, prime) == norm

\* cache_set, line 127: `with _cache_lock` is entered.
CacheSetEnter(t) ==
    /\ pc[t] = "cache_set"
    /\ cache_lock = NoThread
    /\ cache_lock' = t
    /\ pc' = [pc EXCEPT ![t] = "cache_set_locked"]
    /\ UNCHANGED <<now, req, config, cache, rate_lock, last_call_ts, params, slocals,
                   flocals, wait_until, out, hist, slots, puts>>

\* cache_set, line 128, with the default ttl.
CacheSetBody(t) ==
    /\ pc[t] = "cache_set_locked"
    /\ cache_lock = t
    /\ cache' = CacheAfterSet(cache, CacheKey(q[t], page[t]),
                              CachedList(normalized[t], max_price[t], prime_only[t]),
                              CACHE_TTL_SECONDS, now)
    /\ cache_lock' = NoThread
    /\ puts' = [k \in DOMAIN puts \cup {CacheKey(q[t], page[t])} |->
                    IF k = CacheKey(q[t], page[t])
                    THEN [set |-> TRUE, at |-> now, ttl |-> CACHE_TTL_SECONDS,
                          data |-> CachedList(normalized[t], max_price[t], prime_only[t]),
                          full |-> normalized[t],
                          filters |-> [max_price |-> max_price[t],
                                       prime_only |-> prime_only[t]]]
                    ELSE puts[k]]
    /\ hist' = H(t, "served", Append(hist[t].served, normalized[t]))
    /\ pc' = [pc EXCEPT ![t] = "filter"]
    /\ UNCHANGED <<now, req, config, rate_lock, last_call_ts, params, slocals, flocals,
                   wait_until, out, slots>>

\* Lines 290-298: the page's products are filtered into results, and the
\* pause between pages begins.
Filter(t) ==
    /\ pc[t] = "filter"
    /\ results' = [results EXCEPT ![t] =
                      @ \o Filtered(normalized[t], max_price[t], prime_only[t])]
    /\ wait_until' = [wait_until EXCEPT ![t] = now + SleepSeconds(20, 0)]
    /\ pc' = [pc EXCEPT ![t] = "pause"]
    /\ UNCHANGED <<now, req, config, shared, params, page, normalized, errors, flocals,
                   out, hist, slots, puts>>

\* Line 298 returns and the loop of line 274 takes the next page, or ends.
Pause(t) ==
    /\ pc[t] = "pause"
    /\ now >= wait_until[t]
    /\ IF page[t] + 1 <= pages[t]
       THEN /\ page' = [page EXCEPT ![t] = @ + 1]
            /\ pc' = [pc EXCEPT ![t] = "cache_get"]
       ELSE /\ pc' = [pc EXCEPT ![t] = "finish"]
            /\ UNCHANGED page
    /\ wait_until' = [wait_until EXCEPT ![t] = 0]
    /\ UNCHANGED <<now, req, config, shared, params, normalized, results, errors, flocals,
                   out, hist, slots, puts>>

PayloadNoPartial(criteria, results_sorted, errs) ==
    [payload |-> TRUE, criteria |-> criteria,
     products |-> IF errs # <<>> THEN <<>> ELSE results_sorted,
     has_errors |-> errs # <<>>, errors |-> errs]

PayloadAlwaysErrors(criteria, results_sorted, errs) ==
    [payload |-> TRUE, criteria |-> criteria, products |-> results_sorted,
     has_errors |-> TRUE, errors |-> errs]

\* Lines 313-319: the payload; "errors" is a key of it when errors is not
\* empty.
Payload(criteria, results_sorted, errs) ==
    [payload |-> TRUE, criteria |-> criteria, products |-> results_sorted,
     has_errors |-> errs # <<>>, errors |-> errs]

\* Lines 300-322: sort, build the payload, choose the status.
Finish(t) ==
    /\ pc[t] = "finish"
    /\ LET results_sorted == SortedDesc(results[t], max_price[t])
           criteria == [q |-> q[t], max_price |-> max_price[t],
                        prime_only |-> prime_only[t], pages |-> pages[t]]
           body == Payload(criteria, results_sorted, errors[t])
       IN  out' = [out EXCEPT ![t] =
                      [status |-> StatusOf(results_sorted, errors[t]), body |-> body]]
    /\ pc' = [pc EXCEPT ![t] = "done"]
    /\ UNCHANGED <<now, req, config, shared, params, slocals, flocals, wait_until, hist, slots, puts>>

\* A thread is in time.sleep().
Sleeping(t) == pc[t] \in {"rate_sleep", "backoff", "pause"}

\* A second passes.  Time passes while some thread sleeps or waits for its
\* next request, and a sleep ends as soon as the clock allows; the other
\* steps, the upstream call included, take no time on this clock.
Tick ==
    /\ now < horizon
    /\ \E t \in Threads :
          \/ Sleeping(t)
          \/ pc[t] \in {"idle", "done"} /\ req[t] # <<>>
    /\ \A t \in Threads : Sleeping(t) => now < wait_until[t]
    /\ now' = now + 1
    /\ UNCHANGED <<req, config, shared, pc, params, slocals, flocals, wait_until, out,
                   hist, slots, puts>>

Step(t) ==
    \/ Receive(t)
    \/ CacheGetEnter(t) \/ CacheGetBody(t)
    \/ RateEnter(t) \/ RateRead(t) \/ RateWake(t) \/ RateRecord(t)
    \/ PostReturn(t) \/ PostRaise(t) \/ PostRetry(t) \/ BackoffWake(t)
    \/ CacheSetEnter(t) \/ CacheSetBody(t)
    \/ Filter(t) \/ Pause(t) \/ Finish(t)

Next == Tick \/ \E t \in Threads : Step(t)

\* Two threads, one request each, for the same query.
Requests ==
    { Request(<<"t", "v">>, pg, None, None) : pg \in {None, Str("2")} }

Upstream == {RespItems(<<ItemA, ItemNoAsin>>), Resp503, Resp404}

Init ==
    /\ InitCommon
    /\ env_ok = TRUE
    /\ upstream = Upstream
    /\ horizon = MaxTime
    /\ req \in [Threads -> {<<r>> : r \in Requests}]

Spec == Init /\ [][Next]_vars

\* One thread serving one request for one page, against an upstream that may
\* give every kind of response; with and without credentials and query.
UpstreamAll ==
    {RespItems(<<ItemA, ItemB>>), RespEmpty, RespErrors, RespNotJson,
     Resp503, Resp429, Resp404}

InitRetry ==
    /\ InitCommon
    /\ env_ok \in BOOLEAN
    /\ upstream = UpstreamAll
    /\ horizon = MaxTimeSeq
    /\ req \in [Threads -> {<<>>} \cup {<<Request(rq, None, None, None)>> :
                                          rq \in {<<>>, <<" ">>, <<"t", "v">>}}]
    /\ req["t1"] # <<>>
    /\ req["t2"] = <<>>

SpecRetry == InitRetry /\ [][Next]_vars

\* One thread serving up to two requests in turn: for up to three pages, with
\* and without a price ceiling and the prime-only flag.
RequestsSeq ==
    { Request(<<" ", "t", "v">>, Str("3"), None, None),
      Request(<<"t", "v">>, None, Str("100"), None),
      Request(<<"t", "v">>, Str("2"), Str("junk"), Str("true")) }

UpstreamSeq ==
    {RespItems(<<ItemA, ItemNoAsin, ItemMalformed, ItemB, ItemBadFeatures, ItemC>>),
     RespEmpty, Resp503, Resp404}

InitSeq ==
    /\ InitCommon
    /\ env_ok = TRUE
    /\ upstream = UpstreamSeq
    /\ horizon = MaxTimePages
    /\ req \in [Threads -> {<<>>} \cup {<<r>> : r \in RequestsSeq}
                          \cup {<<r1, r2>> : r1, r2 \in RequestsSeq}]
    /\ req["t1"] # <<>>
    /\ req["t2"] = <<>>

SpecSeq == InitSeq /\ [][Next]_vars

\* Two threads serving three requests for the same page of the same query,
\* long enough for the page's cache entry to expire.
InitCache ==
    /\ InitCommon
    /\ env_ok = TRUE
    /\ upstream = {RespItems(<<ItemA>>), RespEmpty, Resp503, Resp404}
    /\ horizon = MaxTime
    /\ req = [t \in Threads |->
                IF t = "t1"
                THEN <<Request(<<"t", "v">>, None, None, None),
                       Request(<<"t", "v", " ">>, None, None, None)>>
                ELSE <<Request(<<"t", "v">>, None, None, None)>>]

SpecCache == InitCache /\ [][Next]_vars

\* One thread serving one request for the most pages, against an upstream
\* that returns more items per page than the ItemCount asked for.
BigPage == [n \in 1..11 |-> IF n % 2 = 0 THEN ItemA ELSE ItemB]

InitBig ==
    /\ InitCommon
    /\ env_ok = TRUE
    /\ upstream = {RespItems(BigPage), Resp503, Resp404}
    /\ horizon = MaxTimePages
    /\ req = [t \in Threads |->
                IF t = "t1" THEN <<Request(<<"t", "v">>, Str("9"), None, None)>> ELSE <<>>]

SpecBig == InitBig /\ [][Next]_vars


(***************************************************************************)
(* The claims.                                                             *)
(***************************************************************************)
InRateLimiter(t) == pc[t] \in {"rate_locked", "rate_sleep", "rate_record"}

\* C1: under any interleaving of the threads, two consecutive instants
\* recorded by _rate_limit (the returns of two consecutive acquires, by the
\* same or by different threads) are at least MIN_CALL_INTERVAL apart, so
\* that n acquires span at least (n - 1) * MIN_CALL_INTERVAL, and at most one
\* thread at a time is inside the limiter, owning the slot.
C1_RateSpacing ==
    /\ slots.n >= 2 => slots.last - slots.prev >= MIN_CALL_INTERVAL
    /\ slots.n >= 1 => slots.last - slots.first >= (slots.n - 1) * MIN_CALL_INTERVAL
    /\ Cardinality({t \in Threads : InRateLimiter(t)}) <= 1
    /\ \A t \in Threads : InRateLimiter(t) <=> rate_lock = t

\* Three acquires, two consecutive ones by different threads and exactly
\* MIN_CALL_INTERVAL apart: the second thread slept for the first one's slot.
C1_Witness ==
    /\ slots.n >= 3
    /\ slots.prev_by # slots.last_by
    /\ slots.last - slots.prev = MIN_CALL_INTERVAL


InSearchPaapi(t) ==
    pc[t] \in {"rate_limit", "rate_locked", "rate_sleep", "rate_record", "post", "backoff"}

\* C2: in one call of search_paapi, a well-formed 2xx that follows k < 5
\* retryable answers ends the call with success after exactly k + 1 upstream
\* attempts; when every answer is retryable the call fails after exactly
\* max_retries = 5 attempts, and no call ever makes a 6th.
C2_RetryCount ==
    \A t \in Threads :
        LET h == hist[t]
        IN  /\ h.attempts <= 5
            /\ h.outcome = "return" => h.attempts = h.retryable + 1 /\ h.retryable < 5
            /\ (h.attempts >= 1 /\ last_resp[t] \in {RespItems(<<ItemA, ItemB>>), RespEmpty})
                 => /\ h.outcome = "return"
                    /\ ~InSearchPaapi(t)
            /\ h.outcome = "exhausted" => h.attempts = 5 /\ h.retryable = 5
            /\ h.retryable = 5
                 => \/ pc[t] = "backoff"
                    \/ h.outcome = "exhausted" /\ ~InSearchPaapi(t) /\ Len(errors[t]) = 1

\* Five retryable answers in a row: the call has failed after its 5th attempt.
C2_Witness ==
    \E t \in Threads :
        /\ hist[t].outcome = "exhausted"
        /\ hist[t].attempts = 5
        /\ pc[t] = "done"
        /\ out[t].status = 502

\* Four retryable answers and then a 2xx: success on the 5th attempt.
C2_WitnessLateSuccess ==
    \E t \in Threads :
        /\ hist[t].outcome = "return"
        /\ hist[t].retryable = 4
        /\ hist[t].attempts = 5

\* C3: in one call of search_paapi, the first answer that is a 2xx with a
\* non-empty Errors list, or whose status is neither 2xx nor retryable, ends
\* the call with an error at once: it is the call's last attempt, and no
\* backoff sleep follows it (every sleep of the call follows an earlier,
\* retryable answer).
C3_FailFast ==
    \A t \in Threads :
        LET h == hist[t]
        IN  h.fatal_at > 0
              => /\ h.attempts = h.fatal_at
                 /\ h.sleeps = h.fatal_at - 1
                 /\ h.retryable = h.fatal_at - 1
                 /\ h.outcome = "raise"
                 /\ ~InSearchPaapi(t)
                 /\ Len(errors[t]) = 1

\* A 404 on the third attempt, after two retryable answers, and a 2xx with
\* an Errors list are both reachable; the witness is the former.
C3_Witness ==
    \E t \in Threads :
        /\ hist[t].fatal_at = 3
        /\ last_resp[t] = Resp404
        /\ hist[t].sleeps = 2
        /\ pc[t] = "done"

C3_WitnessLogical ==
    \E t \in Threads :
        /\ hist[t].fatal_at = 2
        /\ last_resp[t] = RespErrors
        /\ pc[t] = "done"


\* C4: a cache_get of a key never set is a miss; a cache_get made no later
\* than the expiry instant (put time + ttl) of the key's last cache_set, and
\* so one made right after the cache_set, returns the data of that cache_set;
\* a cache_get made strictly after the expiry instant is a miss and leaves
\* the key out of the map, and so does every later one until the next
\* cache_set: the map never holds anything but the last cache_set of a key.
C4_CacheContract ==
    /\ \A t \in Threads :
        LET gt == hist[t].get
        IN  gt.n > 0 =>
              /\ ~gt.put.set => ~gt.hit
              /\ (gt.put.set /\ gt.at <= gt.put.at + gt.put.ttl)
                   => gt.hit /\ gt.data = gt.put.data
              /\ (gt.put.set /\ gt.at > gt.put.at + gt.put.ttl)
                   => ~gt.hit /\ ~gt.present_after
              /\ ~gt.hit => ~gt.present_after
    /\ \A key \in DOMAIN cache :
        /\ key \in DOMAIN puts
        /\ cache[key] = [exp |-> puts[key].at + puts[key].ttl, data |-> puts[key].data]

\* A thread's cache_get misses on a key that was set, has expired and had
\* already been evicted by an earlier cache_get: the entry has not come back.
C4_Witness ==
    \E t \in Threads :
        LET gt == hist[t].get
        IN  /\ gt.n > 0
            /\ gt.put.set
            /\ gt.put.data # <<>>
            /\ gt.at > gt.put.at + gt.put.ttl
            /\ ~gt.present_before
            /\ ~gt.hit

\* A cache_get in the very second of the cache_set returns its data.
C4_WitnessHit ==
    \E t \in Threads :
        LET gt == hist[t].get
        IN  gt.n > 0 /\ gt.put.set /\ gt.at = gt.put.at /\ gt.hit /\ gt.data # <<>>

\* A cache_get at the expiry instant itself still returns the data, and one
\* a second later evicts the entry.
C4_WitnessAtExpiry ==
    \E t \in Threads :
        LET gt == hist[t].get
        IN  gt.n > 0 /\ gt.put.set /\ gt.at = gt.put.at + gt.put.ttl /\ gt.hit

C4_WitnessEvict ==
    \E t \in Threads :
        LET gt == hist[t].get
        IN  gt.n > 0 /\ gt.put.set /\ gt.present_before /\ ~gt.present_after


\* The response of a search that got as far as the payload.
Responded(t) == pc[t] = "done" /\ out[t].body.payload

\* How often x occurs in the sequence s.
Count(x, s) == Cardinality({i \in 1..Len(s) : s[i] = x})

RECURSIVE Flatten(_)
Flatten(ss) == IF ss = <<>> THEN <<>> ELSE Head(ss) \o Flatten(Tail(ss))

\* C5: in one call of search the cache lookups are for the pages 1, 2, ... in
\* that order, each page once, never beyond the page count; the upstream is
\* called only for the page just looked up; and once the fetch of page p has
\* failed the call is over: page p is the last page looked up and fetched.
C5_PageOrder ==
    \A t \in Threads :
        LET h == hist[t]
        IN  /\ h.lookups = [i \in 1..Len(h.lookups) |-> i]
            /\ pc[t] # "idle" => Len(h.lookups) <= pages[t]
            /\ \A i \in 1..Len(h.fetched) :
                 /\ h.fetched[i] \in 1..Len(h.lookups)
                 /\ i > 1 => h.fetched[i - 1] < h.fetched[i]
            /\ h.failed > 0
                 => /\ Len(h.lookups) = h.failed
                    /\ h.fetched # <<>>
                    /\ h.fetched[Len(h.fetched)] = h.failed
                    /\ pc[t] \in {"finish", "done"}

\* The fetch of page 2 of 3 has failed and the response is out: page 3 was
\* never looked up.
C5_Witness ==
    \E t \in Threads :
        /\ Responded(t)
        /\ pages[t] = 3
        /\ hist[t].failed = 2
        /\ hist[t].lookups = <<1, 2>>

\* C6: when the fetch of page p fails, the response still lists every product
\* of the pages 1..p-1 that passed the filters, as often as it was gathered.
C6_PartialResults ==
    \A t \in Threads :
        (Responded(t) /\ hist[t].failed > 0)
          => /\ Len(hist[t].served) = hist[t].failed - 1
             /\ \A i \in 1..Len(hist[t].served) :
                  \A j \in 1..Len(hist[t].served[i]) :
                     LET x == hist[t].served[i][j]
                     IN  Passes(x, max_price[t], prime_only[t])
                           => Count(x, out[t].body.products)
                                >= Count(x, Flatten(hist[t].served))

\* Page 3 failed after two pages that gave products: they are in the response.
C6_Witness ==
    \E t \in Threads :
        /\ Responded(t)
        /\ hist[t].failed = 3
        /\ Len(out[t].body.products) >= 4
        /\ out[t].body.has_errors

\* C7: the status of a search response follows from its product list and its
\* error list: 502 for no product and at least one error, 200 otherwise (at
\* least one product, with or without errors, or neither).
C7_Status ==
    \A t \in Threads :
        Responded(t)
          => LET b == out[t].body
             IN  /\ (b.products = <<>> /\ b.errors # <<>>) => out[t].status = 502
                 /\ b.products # <<>> => out[t].status = 200
                 /\ (b.products = <<>> /\ b.errors = <<>>) => out[t].status = 200

\* Products of page 1 together with the error of page 2: status 200.
C7_Witness ==
    \E t \in Threads :
        /\ Responded(t)
        /\ out[t].body.products # <<>>
        /\ out[t].body.errors # <<>>
        /\ out[t].status = 200

C7_WitnessFailure ==
    \E t \in Threads :
        Responded(t) /\ out[t].body.products = <<>> /\ out[t].status = 502

C7_WitnessEmpty ==
    \E t \in Threads :
        /\ Responded(t)
        /\ out[t].body.products = <<>>
        /\ out[t].body.errors = <<>>
        /\ out[t].status = 200

\* C8: with a price ceiling supplied, search admits exactly the items that
\* have a price, and one not above the ceiling: every product of the
\* response has a price of at most the ceiling.
C8_PriceCeiling ==
    \A t \in Threads :
        (Responded(t) /\ ~IsNone(max_price[t]))
          => \A i \in 1..Len(out[t].body.products) :
                LET x == out[t].body.products[i]
                IN  ~IsNone(x.d.price) /\ x.d.price.n <= max_price[t].n

\* C9: no product with an absent id is ever stored in the cache or returned
\* in the product list of a response.
C9_NoAbsentId ==
    /\ \A key \in DOMAIN cache :
         \A i \in 1..Len(cache[key].data) : ~IsNone(cache[key].data[i].d.id)
    /\ \A t \in Threads :
         Responded(t)
           => \A i \in 1..Len(out[t].body.products) :
                 ~IsNone(out[t].body.products[i].d.id)

\* C10: the product list of a response never has more than 50 entries.
C10_Cap50 ==
    \A t \in Threads : Responded(t) => Len(out[t].body.products) <= 50

\* The elements of s whose score is v, in their order in s.
RECURSIVE WithScore(_, _, _)
WithScore(s, v, maxp) ==
    IF s = <<>> THEN <<>>
    ELSE (IF Score(Head(s), maxp) = v THEN <<Head(s)>> ELSE <<>>)
         \o WithScore(Tail(s), v, maxp)

\* C11: the product list of a response is a reordering of the accumulated
\* items (the products of the pages processed that pass the filters, page by
\* page): every item occurs in it as often as it was accumulated; the scores
\* never increase from one entry to the next; and the items of one score are
\* in the order in which they were accumulated.
C11_StableSort ==
    \A t \in Threads :
        Responded(t)
          => LET ps  == out[t].body.products
                 acc == Flatten(hist[t].served)
                 mp  == max_price[t]
             IN  /\ Len(ps) = Len(results[t])
                 /\ \A i \in 1..Len(acc) :
                      Count(acc[i], ps) =
                         IF Passes(acc[i], mp, prime_only[t]) THEN Count(acc[i], acc) ELSE 0
                 /\ \A i \in 1..Len(ps) : Count(ps[i], acc) > 0
                 /\ \A i \in 1..(Len(ps) - 1) : Score(ps[i], mp) >= Score(ps[i + 1], mp)
                 /\ \A i \in 1..Len(ps) :
                      WithScore(ps, Score(ps[i], mp), mp)
                         = WithScore(Filtered(acc, mp, prime_only[t]), Score(ps[i], mp), mp)

\* Two pages accumulated, with ItemB before ItemC on each and both of one
\* score, above ItemA's: the response lists B, C, B, C and then the rest.
C11_Witness ==
    \E t \in Threads :
        /\ Responded(t)
        /\ Len(out[t].body.products) = 8
        /\ LET ps == out[t].body.products
           IN  /\ ps[1].d.asin = Str("B0B") /\ ps[2].d.asin = Str("B0C")
               /\ ps[3].d.asin = Str("B0B") /\ ps[4].d.asin = Str("B0C")
               /\ Score(ps[1], max_price[t]) = Score(ps[2], max_price[t])
               /\ results[t][1].d.asin = Str("B0A")

\* C12: the payload of a search response has the key "errors" exactly when a
\* page fetch failed during that call (search_paapi raised, at once or after
\* its retries), and the list under it then holds exactly one error; when no
\* fetch failed no error was collected.
C12_ErrorList ==
    \A t \in Threads :
        Responded(t)
          => LET b == out[t].body
                 failed == hist[t].failed > 0
             IN  /\ b.has_errors <=> failed
                 /\ failed <=> hist[t].outcome \in {"raise", "exhausted"}
                 /\ b.has_errors => Len(b.errors) = 1
                 /\ ~b.has_errors => b.errors = <<>> /\ errors[t] = <<>>

\* A three-page search whose second fetch failed: one error in the response,
\* next to the products of page 1.
C12_Witness ==
    \E t \in Threads :
        /\ Responded(t)
        /\ out[t].body.has_errors
        /\ Len(out[t].body.errors) = 1
        /\ hist[t].failed = 2
        /\ hist[t].outcome = "raise"
        /\ Len(out[t].body.products) = 4

\* A search all of whose pages were fetched or served from the cache: no
\* error list.
C12_WitnessNoError ==
    \E t \in Threads :
        /\ Responded(t)
        /\ ~out[t].body.has_errors
        /\ Len(hist[t].lookups) = 3
        /\ hist[t].fetched # <<>>

\* The threads whose _rate_limit has returned and whose requests.post has
\* not answered yet.
Posting == {t \in Threads : pc[t] = "post"}

\* C13: every upstream attempt of a call of search_paapi, the first and each
\* retry, follows an acquire of its own that has completed (the limiter's
\* lock released): in a call the acquires made are the attempts made, plus
\* the one of the attempt under way; over all threads every upstream call
\* has used up one recorded instant of the limiter, so that k upstream calls
\* take at least (k - 1) * MIN_CALL_INTERVAL from the first recorded instant.
C13_AcquirePerAttempt ==
    /\ \A t \in Threads :
         /\ hist[t].acquires = hist[t].attempts + (IF t \in Posting THEN 1 ELSE 0)
         /\ t \in Posting => rate_lock # t
    /\ slots.n = slots.calls + Cardinality(Posting)
    /\ slots.calls >= 1 => now - slots.first >= (slots.calls - 1) * MIN_CALL_INTERVAL

\* A thread has made a retry, with an acquire for each of its two attempts,
\* and the other thread made the third upstream call of the run.
C13_Witness ==
    \E t \in Threads :
        /\ hist[t].attempts = 2
        /\ hist[t].acquires = 2
        /\ hist[t].retryable >= 1
        /\ slots.calls = 3
        /\ slots.last_by # t
        /\ Posting = {}

\* C14: when a call of search_paapi has used up its attempts on retryable
\* answers, the error it raises carries the status code of the last answer
\* and that answer's body.
C14_ExhaustedStatus ==
    \A t \in Threads :
        (hist[t].outcome = "exhausted" /\ errors[t] # <<>>)
          => LET e == errors[t][Len(errors[t])]
             IN  /\ e.kind = "PA-API HTTP after retries"
                 /\ e.status = ToString(last_resp[t].status)
                 /\ e.body = ErrBody(last_resp[t])

\* C15: a call of search_paapi that has ended has slept once per retry it
\* made, attempts - 1 times in all, and no backoff sleep follows the attempt
\* that uses up the attempts (the 5th).
C15_SleepsAreRetries ==
    \A t \in Threads :
        /\ hist[t].outcome \in {"return", "raise", "exhausted"}
             => hist[t].sleeps = hist[t].attempts - 1
        /\ pc[t] = "backoff" => hist[t].attempts < max_retries

\* An entry that cache_get would still return: time.time() > exp is false.
Unexpired(key) == key \in DOMAIN cache /\ now <= cache[key].exp

\* This step is the cache_set of `key` by a thread whose own lookup of the
\* key missed, and missed before the entry now under the key was written.
MissWrites(key) ==
    \E t \in Threads :
        /\ pc[t] = "cache_set_locked"
        /\ pc'[t] = "filter"
        /\ CacheKey(q[t], page[t]) = key
        /\ ~hist[t].get.hit
        /\ key \in DOMAIN cache => hist[t].get.at <= puts[key].at

\* C16, as claimed: under any interleaving of concurrent calls of search, an
\* entry of the cache that has not expired is left as it is by every step:
\* neither its product list nor its expiry instant is replaced.
C16_ReadOnlyUntilExpiry ==
    [][\A key \in DOMAIN cache :
          Unexpired(key) => key \in DOMAIN cache' /\ cache'[key] = cache[key]]_vars

\* C16, amended: an entry comes into the cache only by the cache_set of a
\* call whose lookup of the key missed; no lookup changes or removes an
\* entry that has not expired; and such an entry is replaced only by the
\* cache_set of a call whose lookup of the key missed before the entry was
\* written (a concurrent miss: each call that missed writes what it fetched,
\* and the last write stays).
C16_ReplacedOnlyByConcurrentMiss ==
    [][/\ \A key \in DOMAIN cache' \ DOMAIN cache : MissWrites(key)
       /\ \A key \in DOMAIN cache :
             (Unexpired(key) /\ (key \notin DOMAIN cache' \/ cache'[key] # cache[key]))
               => MissWrites(key)]_vars

\* Both threads missed the same key in the same second, both fetched the
\* page and both have written it, with different product lists, before the
\* first write could expire: the second write replaced the first.
C16_Witness ==
    \E t, u \in Threads :
        /\ t # u
        /\ q[t] = q[u] /\ page[t] = page[u]
        /\ ~hist[t].get.hit /\ ~hist[u].get.hit
        /\ hist[t].get.at = hist[u].get.at
        /\ hist[t].outcome = "return" /\ hist[u].outcome = "return"
        /\ Len(hist[t].served) = 1 /\ Len(hist[u].served) = 1
        /\ hist[t].served # hist[u].served
        /\ now <= hist[t].get.at + CACHE_TTL_SECONDS
        /\ Unexpired(CacheKey(q[t], page[t]))

\* A thread is waiting to enter a `with` block: for _cache_lock, for _rate_lock.
WaitsForCacheLock(t) == pc[t] \in {"cache_get", "cache_set"}
WaitsForRateLock(t) == pc[t] = "rate_limit"
InCacheLock(t) == pc[t] \in {"cache_get_locked", "cache_set_locked"}

\* C17: no thread holds _cache_lock and _rate_lock together; the holder of
\* _cache_lock is inside cache_get or cache_set, never in the rate limiter,
\* in a sleep or in an upstream call, and waits for no lock, and its next
\* step, which releases the lock, can be taken whatever the other threads do
\* in the rate limiter; the holder of _rate_lock waits for no lock either,
\* so no thread holding one lock waits for the other; and a thread about to
\* enter cache_get or cache_set finds the lock free or held by a thread that
\* is about to release it.
C17_LockIndependence ==
    /\ \A t \in Threads :
         /\ ~(cache_lock = t /\ rate_lock = t)
         /\ cache_lock = t <=> InCacheLock(t)
         /\ cache_lock = t => /\ ~Sleeping(t) /\ ~InSearchPaapi(t)
                              /\ ENABLED (CacheGetBody(t) \/ CacheSetBody(t))
         /\ rate_lock = t => ~WaitsForCacheLock(t) /\ ~InCacheLock(t)
         /\ WaitsForCacheLock(t)
              => \/ ENABLED (CacheGetEnter(t) \/ CacheSetEnter(t))
                 \/ \E u \in Threads \ {t} :
                       cache_lock = u /\ ENABLED (CacheGetBody(u) \/ CacheSetBody(u))
    /\ cache_lock \in Threads \cup {NoThread}
    /\ rate_lock \in Threads \cup {NoThread}

\* One thread sleeps inside the rate limiter, holding _rate_lock, while the
\* other is inside cache_set, holding _cache_lock, with the page it fetched.
C17_Witness ==
    \E t, u \in Threads :
        /\ t # u
        /\ pc[u] = "rate_sleep" /\ rate_lock = u /\ now < wait_until[u]
        /\ pc[t] = "cache_set_locked" /\ cache_lock = t

\* One thread sleeps inside the rate limiter while the other enters
\* cache_get for its next page.
C17_WitnessGet ==
    \E t, u \in Threads :
        /\ t # u
        /\ pc[u] = "rate_sleep" /\ rate_lock = u /\ now < wait_until[u]
        /\ pc[t] = "cache_get_locked" /\ page[t] = 2

\* The page a thread is processing came from the cache.
ServedFromCache(t) == pc[t] \in {"filter", "pause"} /\ hist[t].get.hit

\* C18: the keys of the cache are (operation, query text, page number) and
\* nothing else, and the list stored under a key is the normalized list of an
\* upstream answer, unfiltered; a lookup made until the expiry of the key's
\* last cache_set hits whatever the filters of the call that made the
\* cache_set and of the call looking up; a page that hit is not fetched (the
\* call enters neither search_paapi nor the rate limiter for it) and the
\* list processed is the stored, unfiltered one; and the items a call has
\* gathered are its own filters applied to the lists of its pages.
C18_KeyAndUnfiltered ==
    /\ \A key \in DOMAIN cache :
         /\ \E qq \in {q[t] : t \in Threads}, pg \in 1..5 : key = <<"search", qq, pg>>
         /\ cache[key].data = puts[key].full
    /\ \A t \in Threads :
         LET gt == hist[t].get
         IN  /\ (gt.n > 0 /\ gt.put.set /\ gt.at <= gt.put.at + gt.put.ttl) => gt.hit
             /\ gt.hit => gt.data = gt.put.full
             /\ ServedFromCache(t)
                  => /\ \A i \in 1..Len(hist[t].fetched) : hist[t].fetched[i] # page[t]
                     /\ normalized[t] = gt.put.full
                     /\ hist[t].served[Len(hist[t].served)] = gt.put.full
             /\ Responded(t)
                  => results[t] = Filtered(Flatten(hist[t].served),
                                           max_price[t], prime_only[t])

\* A search with a price ceiling and without the prime-only flag is answered
\* from the cache alone, with the four products of the page, from an entry
\* written by a prime-only search, which itself gathered none of them.
C18_Witness ==
    \E t \in Threads :
        /\ Responded(t)
        /\ hist[t].get.hit
        /\ hist[t].fetched = <<>>
        /\ hist[t].get.put.filters.prime_only
        /\ ~prime_only[t]
        /\ ~IsNone(max_price[t])
        /\ Len(out[t].body.products) = 4

\* The other way round: a prime-only search finds page 1 in the cache, with
\* its four products, fetches page 2 only, and gathers nothing.
C18_WitnessPrime ==
    \E t \in Threads :
        /\ Responded(t)
        /\ prime_only[t]
        /\ hist[t].lookups = <<1, 2>>
        /\ hist[t].fetched = <<2>>
        /\ Len(hist[t].served[1]) = 4
        /\ out[t].body.products = <<>>

\* The raw items normalize_item cannot read: not a JSON object, or with a
\* feature list that cannot be sliced.
Malformed(item) == item \in {ItemMalformed, ItemBadFeatures}
WellFormed(item) == ~Malformed(item)

\* The thread has fetched the page it is processing, and the fetch returned.
FetchedThisPage(t) ==
    /\ pc[t] \in {"cache_set", "cache_set_locked", "filter", "pause"}
    /\ ~hist[t].get.hit
    /\ hist[t].outcome = "return"

\* C19: when a page has been fetched, the malformed items of the answer give
\* no product and the other items give theirs, in order; the list is what is
\* cached for the page and processed; no error is recorded for the page; and
\* the call goes on to its next page: a call without a failed fetch has
\* looked up every page it was asked for.
C19_MalformedDropped ==
    \A t \in Threads :
        /\ FetchedThisPage(t)
             => LET good == SelectSeq(Classify(last_resp[t]).items, WellFormed)
                    key  == CacheKey(q[t], page[t])
                IN  /\ Len(normalized[t]) = Len(good)
                    /\ \A i \in 1..Len(good) : normalized[t][i] = Dict(ProductOf(good[i]))
                    /\ errors[t] = <<>>
                    /\ hist[t].failed = 0
                    /\ pc[t] \in {"filter", "pause"}
                         => /\ key \in DOMAIN puts
                            /\ \/ puts[key].data = normalized[t]
                               \/ \E u \in Threads \ {t} :
                                     q[u] = q[t] /\ hist[u].outcome = "return"
                            /\ hist[t].served[Len(hist[t].served)] = normalized[t]
                    /\ (pc[t] = "pause" /\ now >= wait_until[t] /\ page[t] < pages[t])
                         => ENABLED (Pause(t) /\ pc'[t] = "cache_get")
        /\ (Responded(t) /\ hist[t].failed = 0)
             => /\ Len(hist[t].lookups) = pages[t]
                /\ ~out[t].body.has_errors

\* Three pages fetched, each with two malformed items among six: the twelve
\* products of the other items are returned, with status 200 and no errors.
C19_Witness ==
    \E t \in Threads :
        /\ Responded(t)
        /\ hist[t].fetched = <<1, 2, 3>>
        /\ hist[t].outcome = "return"
        /\ \E i \in 1..Len(Classify(last_resp[t]).items) :
              Malformed(Classify(last_resp[t]).items[i])
        /\ Len(out[t].body.products) = 12
        /\ ~out[t].body.has_errors
        /\ out[t].status = 200

\* No other thread has anything to do: the thread runs alone.
Alone(t) == \A u \in Threads \ {t} : pc[u] = "idle" /\ req[u] = <<>>

\* The thread has just looked up, in this call, the page whose fetch failed
\* in its previous call, for the same query.
LooksUpFailedPage(t) ==
    /\ hist[t].prev.page > 0
    /\ hist[t].prev.q = q[t]
    /\ Len(hist[t].lookups) = hist[t].prev.page
    /\ page[t] = hist[t].prev.page

C20_State ==
    \A t \in Threads :
        LET gt == hist[t].get
        IN  /\ hist[t].failed > 0
                 => /\ pc[t] \in {"finish", "done"}
                    /\ Len(hist[t].served) = hist[t].failed - 1
                    /\ Alone(t) => CacheKey(q[t], hist[t].failed) \notin DOMAIN cache
            /\ (LooksUpFailedPage(t) /\ Alone(t))
                 => /\ ~gt.hit
                    /\ hist[t].fetched # <<>>
                    /\ hist[t].fetched[Len(hist[t].fetched)] = page[t]
            /\ (gt.n > 0 /\ gt.put.set /\ gt.put.full = <<>>
                   /\ gt.at <= gt.put.at + gt.put.ttl)
                 => /\ gt.hit /\ gt.data = <<>>
                    /\ gt.present_after
                    /\ ServedFromCache(t)
                         => \A i \in 1..Len(hist[t].fetched) : hist[t].fetched[i] # page[t]

C20_Step ==
    \A t \in Threads :
        /\ (InSearchPaapi(t) /\ pc'[t] \in {"finish", "done"})
             => cache' = cache /\ puts' = puts
        /\ (InSearchPaapi(t) \/ hist[t].failed > 0) /\ pc[t] # "done"
             => \/ cache' = cache
                \/ \E u \in Threads \ {t} : InCacheLock(u)

\* C20: a call of search whose fetch of page p has failed writes nothing to
\* the cache, neither at the failure nor from its miss of page p on: it is
\* over without another page processed, and (when no other call runs) the
\* key of page p is not in the cache; the next search for the same query
\* looks page p up, misses and fetches it again; whereas a fetch that
\* returned no items is cached as an empty list, which a lookup until its
\* expiry returns as a hit, without a fetch.
C20_FailureNotCached == []C20_State /\ [][C20_Step]_vars

\* The fetch of page 1 failed in the previous call; this call has looked the
\* page up, missed, fetched it and got products.
C20_Witness ==
    \E t \in Threads :
        /\ LooksUpFailedPage(t)
        /\ hist[t].prev.page = 1
        /\ ~hist[t].get.hit
        /\ hist[t].outcome = "return"
        /\ Responded(t)
        /\ out[t].body.products # <<>>

\* A page fetched with no items is served from the cache to the next call,
\* which answers 200 with no products and no fetch.
C20_WitnessEmptyHit ==
    \E t \in Threads :
        /\ Responded(t)
        /\ hist[t].get.hit
        /\ hist[t].get.put.set
        /\ hist[t].get.data = <<>>
        /\ hist[t].fetched = <<>>
        /\ out[t].status = 200

====
